---- MODULE Spec2Model ----
(***************************************************************************)
(* Model of CountryLiveClocks (src/index.js): the lazily built timezone    *)
(* index, the country and timezone caches, and the three lookups           *)
(* getCountry, getTimezone and getCountryLiveClock.                        *)
(*                                                                         *)
(* Representation of JavaScript values:                                    *)
(*  - a country code is a sequence of one-character strings, so that       *)
(*    String.prototype.toUpperCase is computed character by character;     *)
(*  - an object is a TLA+ record/function over its own keys; a property    *)
(*    whose value is undefined is left out of the record (reading it       *)
(*    yields undefined either way);                                        *)
(*  - null is the record Null; a plain object also answers for the keys    *)
(*    it inherits from Object.prototype (ProtoIds, ProtoNames) with a      *)
(*    truthy function value that has no own enumerable properties.         *)
(***************************************************************************)
EXTENDS Integers, Sequences, FiniteSets, TLC

VARIABLES data, timezonesMap, countries, timezones, last,
          seenClock, seenCountry, seenTimezone

vars == <<data, timezonesMap, countries, timezones, last,
          seenClock, seenCountry, seenTimezone>>

(* ------------------------------ bounds --------------------------------- *)

\* Number of distinct calls remembered in one behaviour.
MaxCalls == 2

\* Number of instants at which the host clock is read.
MaxNow == 1

\* Largest offset magnitude, in minutes, handed to getOffsetStr directly.
MaxOffset == 840

(* --------------------------- JavaScript values -------------------------- *)

Null == [null |-> TRUE]

EmptyObj == [k \in {} |-> TRUE]

\* Keys every plain object inherits from Object.prototype.
ProtoIds == {<<"constructor">>}

ProtoNames == {"constructor"}

UpperChar(ch) ==
    CASE ch = "a" -> "A"
      [] ch = "constructor" -> "CONSTRUCTOR"
      [] OTHER -> ch

toUpperCase(s) == [i \in 1..Len(s) |-> UpperChar(s[i])]

\* slice without the upper limit.
slice_all(s, n) == s

slice(s, n) == SubSeq(s, 1, IF Len(s) < n THEN Len(s) ELSE n)

(* ------------------------------ dataset --------------------------------- *)

AA == <<"A", "A">>
AB == <<"A", "B">>
BA == <<"B", "A">>
BB == <<"B", "B">>
XB == <<"B">>

\* A dataset: countries (code -> name), timezones (id -> entry) and keys,
\* the iteration order of Object.keys(data.timezones).  Entry fields are
\* c (countries), a (alias), u (utc offset), d (dst offset), r (deprecated).
DataA ==
    [countries |-> (AA :> "Alphaland") @@ (AB :> "Abland") @@
                   (BA :> "Baland") @@ (BB :> "Bbland"),
     keys |-> <<"M1", "D1", "K2", "T3", "L1", "L2", "B4", "T5", "A6",
                "N1", "L4">>,
     timezones |->
        ("M1" :> [c |-> <<AA>>, u |-> -600, d |-> -540]) @@
        ("D1" :> [c |-> <<AA, AB>>, u |-> 0, r |-> 1]) @@
        ("K2" :> [c |-> <<AA>>, u |-> -540, d |-> -480]) @@
        ("T3" :> [c |-> <<AA, BB>>, u |-> 330]) @@
        ("L1" :> [a |-> "T3", u |-> 330, r |-> 1]) @@
        ("L2" :> [a |-> "L1", u |-> 330, r |-> 1]) @@
        ("B4" :> [c |-> <<AA>>, u |-> -420, d |-> -360]) @@
        ("T5" :> [c |-> <<AA>>, u |-> -360, d |-> -300]) @@
        ("A6" :> [c |-> <<AA>>, u |-> -300, d |-> -240]) @@
        ("N1" :> [u |-> 0]) @@
        ("L4" :> [a |-> "M1", c |-> <<BB>>, u |-> 765])]

DataB ==
    [countries |-> (AA :> "Alphaland") @@ (BB :> "Bbland"),
     keys |-> <<"Z1", "Z2", "Z3", "Z4", "Z5">>,
     timezones |->
        ("Z1" :> [a |-> "Z2", u |-> 60, r |-> 1]) @@
        ("Z2" :> [c |-> <<BB, XB>>, u |-> 60, d |-> 120]) @@
        ("Z3" :> [a |-> "Gone", u |-> 0, r |-> 1]) @@
        ("Z4" :> [c |-> <<AA>>, u |-> -210]) @@
        ("Z5" :> [a |-> "Z4", u |-> -210])]

Datasets == {DataA, DataB}

(* --------------------------- offset formatting -------------------------- *)

Digit(k) == <<"0", "1", "2", "3", "4", "5", "6", "7", "8", "9">>[k + 1]

RECURSIVE toString(_)
toString(n) == IF n < 10 THEN Digit(n) ELSE toString(n \div 10) \o Digit(n % 10)

padStart2(n) == IF n < 10 THEN "0" \o toString(n) ELSE toString(n)

abs(n) == IF n < 0 THEN -n ELSE n

\* getOffsetStr that takes zero for a negative offset.
getOffsetStr_zeroNegative(offset) ==
    LET sign == IF offset <= 0 THEN "-" ELSE "+"
        absOffset == abs(offset)
        hours == padStart2(absOffset \div 60)
        minutes == padStart2(absOffset % 60)
    IN  sign \o hours \o ":" \o minutes

getOffsetStr(offset) ==
    LET sign == IF offset < 0 THEN "-" ELSE "+"
        absOffset == abs(offset)
        hours == padStart2(absOffset \div 60)
        minutes == padStart2(absOffset % 60)
    IN  sign \o hours \o ":" \o minutes

(* ----------------------------- index builder ---------------------------- *)

Has(obj, key) == key \in DOMAIN obj

\* `const v = x; F(v)`: x is evaluated once and F is applied to its value.
Const(x, F(_)) == CHOOSE y \in {F(v) : v \in {x}} : TRUE

\* tzCountries.forEach(...) of buildTimezonesMap, from position j on.
RECURSIVE forEachCountry(_, _, _, _, _)
forEachCountry(result, id, entry, tzCountries, j) ==
    IF j > Len(tzCountries) THEN result
    ELSE LET country == tzCountries[j]
             r1 == IF Has(result, country) THEN result
                   ELSE result @@ (country :> [current |-> <<>>, all |-> <<>>])
             cur == IF ~Has(entry, "r")
                    THEN Append(r1[country].current, id)
                    ELSE r1[country].current
             r2 == [r1 EXCEPT ![country] =
                        [current |-> cur, all |-> Append(r1[country].all, id)]]
         IN  Const(r2, LAMBDA r : forEachCountry(r, id, entry, tzCountries, j + 1))

\* The reduce of buildTimezonesMap over Object.keys(data.timezones), from i on.
RECURSIVE reduceKeys(_, _, _)

\* reduceKeys that prefers the alias target's countries over the zone's own.
reduceKeys_aliasFirst(d, result, i) ==
    IF i > Len(d.keys) THEN result
    ELSE LET id == d.keys[i]
             entry == d.timezones[id]
             aliasTz == IF Has(entry, "a") /\ Has(d.timezones, entry.a)
                        THEN d.timezones[entry.a] ELSE EmptyObj
             hasCountries == Has(entry, "c") \/ Has(aliasTz, "c")
             tzCountries == IF Has(aliasTz, "c") THEN aliasTz.c ELSE entry.c
         IN  IF ~hasCountries THEN reduceKeys(d, result, i + 1)
             ELSE Const(forEachCountry(result, id, entry, tzCountries, 1),
                        LAMBDA r : reduceKeys(d, r, i + 1))

reduceKeys(d, result, i) ==
    IF i > Len(d.keys) THEN result
    ELSE LET id == d.keys[i]
             entry == d.timezones[id]
             aliasTz == IF Has(entry, "a") /\ Has(d.timezones, entry.a)
                        THEN d.timezones[entry.a] ELSE EmptyObj
             hasCountries == Has(entry, "c") \/ Has(aliasTz, "c")
             tzCountries == IF Has(entry, "c") THEN entry.c ELSE aliasTz.c
         IN  IF ~hasCountries THEN reduceKeys(d, result, i + 1)
             ELSE Const(forEachCountry(result, id, entry, tzCountries, 1),
                        LAMBDA r : reduceKeys(d, r, i + 1))

buildTimezonesMap(d) == reduceKeys(d, <<>>, 1)

(* ------------------------- module-level state --------------------------- *)

\* `let timezonesMap;` (undefined until the first build), `const countries = {}`
\* and `const timezones = {}`, threaded through the calls as one record; built
\* counts the objects a call constructs (index, country and timezone records).
NoBuilt == [index |-> 0, country |-> 0, timezone |-> 0]

Store == [timezonesMap |-> timezonesMap, countries |-> countries,
          timezones |-> timezones, built |-> NoBuilt]

Undefined == [undefined |-> TRUE]

\* Object.prototype.constructor as seen through countries[id] / timezones[name].
ProtoFn == [function |-> "Object"]

\* getTimezonesMap that builds the index on every call.
getTimezonesMap_always(st) ==
    [st EXCEPT !.timezonesMap = [defined |-> TRUE, map |-> buildTimezonesMap(data)],
               !.built.index = @ + 1]

getTimezonesMap(st) ==
    IF ~st.timezonesMap.defined
    THEN [st EXCEPT !.timezonesMap = [defined |-> TRUE, map |-> buildTimezonesMap(data)],
                    !.built.index = @ + 1]
    ELSE st

\* buildCountry with the current and all lists exchanged.
buildCountry_swapped(st, id) ==
    IF ~(Has(data.countries, id) \/ id \in ProtoIds) THEN [st |-> st, ret |-> Null]
    ELSE Const(getTimezonesMap(st), LAMBDA st1 :
           LET name == IF Has(data.countries, id) THEN data.countries[id]
                       ELSE "function Object"
               tzMap == IF Has(st1.timezonesMap.map, id) THEN st1.timezonesMap.map[id]
                        ELSE EmptyObj
           IN  [st |-> [st1 EXCEPT !.built.country = @ + 1],
                ret |-> [id |-> id,
                         name |-> name,
                         timezones |-> IF Has(tzMap, "all") THEN tzMap.all ELSE <<>>,
                         allTimezones |-> IF Has(tzMap, "current") THEN tzMap.current ELSE <<>>]])

\* Returns [st, ret]: the store after the lazy index build and the record or Null.
buildCountry(st, id) ==
    IF ~(Has(data.countries, id) \/ id \in ProtoIds) THEN [st |-> st, ret |-> Null]
    ELSE Const(getTimezonesMap(st), LAMBDA st1 :
           LET name == IF Has(data.countries, id) THEN data.countries[id]
                       ELSE "function Object"
               tzMap == IF Has(st1.timezonesMap.map, id) THEN st1.timezonesMap.map[id]
                        ELSE EmptyObj
           IN  [st |-> [st1 EXCEPT !.built.country = @ + 1],
                ret |-> [id |-> id,
                         name |-> name,
                         timezones |-> IF Has(tzMap, "current") THEN tzMap.current ELSE <<>>,
                         allTimezones |-> IF Has(tzMap, "all") THEN tzMap.all ELSE <<>>]])

memoizeCountry(st, country) ==
    IF country # Null
    THEN [st EXCEPT !.countries = (country.id :> country) @@ st.countries]
    ELSE st

deliverCountry(country, options) ==
    IF country = Undefined \/ country = Null THEN Null
    ELSE LET deprecated == IF Has(options, "deprecated") THEN options.deprecated ELSE FALSE
             own == IF country = ProtoFn THEN EmptyObj ELSE country
             other == [k \in DOMAIN own \ {"allTimezones"} |-> own[k]]
             tzField == IF deprecated THEN "allTimezones" ELSE "timezones"
         IN  IF Has(own, tzField)
             THEN [k \in DOMAIN other \cup {"timezones"} |->
                      IF k = "timezones" THEN own[tzField] ELSE other[k]]
             ELSE [k \in DOMAIN other \ {"timezones"} |-> other[k]]

\* countries[id] as JavaScript reads it: own entry, inherited function or undefined.
countriesAt(st, id) ==
    IF Has(st.countries, id) THEN st.countries[id]
    ELSE IF id \in ProtoIds THEN ProtoFn ELSE Undefined

\* getCountry that writes the delivered selection back into the cached record.
getCountry_storesSelection(st, id, options) ==
    Const(IF countriesAt(st, id) = Undefined
          THEN Const(buildCountry(st, id), LAMBDA b : memoizeCountry(b.st, b.ret))
          ELSE st,
          LAMBDA st1 :
            Const(deliverCountry(countriesAt(st1, id), options), LAMBDA ret :
              [st |-> IF Has(st1.countries, id)
                      THEN [st1 EXCEPT !.countries[id].timezones = ret.timezones]
                      ELSE st1,
               ret |-> ret]))

getCountry(st, id, options) ==
    Const(IF countriesAt(st, id) = Undefined
          THEN Const(buildCountry(st, id), LAMBDA b : memoizeCountry(b.st, b.ret))
          ELSE st,
          LAMBDA st1 : [st |-> st1, ret |-> deliverCountry(countriesAt(st1, id), options)])

(* --------------------------- timezone resolver -------------------------- *)

\* buildTimezone that never marks a record deprecated.
buildTimezone_noDeprecated(d, name) ==
    IF name \in ProtoNames /\ ~Has(d.timezones, name)
    THEN [name |-> name, utcOffsetStr |-> "+NaN:NaN", dstOffsetStr |-> "+NaN:NaN"]
    ELSE IF ~Has(d.timezones, name) THEN Null
    ELSE LET timezone == d.timezones[name]
             utcOffset == timezone.u
             dstOffset == IF Has(timezone, "d") THEN timezone.d ELSE utcOffset
         IN  [name |-> name,
              utcOffset |-> utcOffset,
              utcOffsetStr |-> getOffsetStr(utcOffset),
              dstOffset |-> dstOffset,
              dstOffsetStr |-> getOffsetStr(dstOffset)]
             @@ (IF Has(timezone, "c") THEN [countries |-> timezone.c] ELSE EmptyObj)
             @@ (IF Has(timezone, "a") THEN [aliasOf |-> timezone.a] ELSE EmptyObj)

buildTimezone(d, name) ==
    IF name \in ProtoNames /\ ~Has(d.timezones, name)
    THEN [name |-> name, utcOffsetStr |-> "+NaN:NaN", dstOffsetStr |-> "+NaN:NaN"]
    ELSE IF ~Has(d.timezones, name) THEN Null
    ELSE LET timezone == d.timezones[name]
             utcOffset == timezone.u
             dstOffset == IF Has(timezone, "d") THEN timezone.d ELSE utcOffset
         IN  [name |-> name,
              utcOffset |-> utcOffset,
              utcOffsetStr |-> getOffsetStr(utcOffset),
              dstOffset |-> dstOffset,
              dstOffsetStr |-> getOffsetStr(dstOffset)]
             @@ (IF Has(timezone, "c") THEN [countries |-> timezone.c] ELSE EmptyObj)
             @@ (IF Has(timezone, "a") THEN [aliasOf |-> timezone.a] ELSE EmptyObj)
             @@ (IF Has(timezone, "r") /\ timezone.r # 0 THEN [deprecated |-> TRUE] ELSE EmptyObj)

memoizeTimezone(st, timezone) ==
    IF timezone # Null
    THEN [st EXCEPT !.timezones = (timezone.name :> timezone) @@ st.timezones,
                    !.built.timezone = @ + 1]
    ELSE st

\* getTimezone that rebuilds and re-memoizes the record on every call.
getTimezone_noCache(st, name) ==
    Const(Const(buildTimezone(data, name), LAMBDA tz : memoizeTimezone(st, tz)),
          LAMBDA st1 :
            [st |-> st1,
             ret |-> IF Has(st1.timezones, name) THEN st1.timezones[name]
                     ELSE IF name \in ProtoNames THEN EmptyObj ELSE Null])

getTimezone(st, name) ==
    LET cached == Has(st.timezones, name) \/ name \in ProtoNames
    IN  Const(IF ~cached
              THEN Const(buildTimezone(data, name), LAMBDA tz : memoizeTimezone(st, tz))
              ELSE st,
              LAMBDA st1 :
                [st |-> st1,
                 ret |-> IF Has(st1.timezones, name) THEN st1.timezones[name]
                         ELSE IF name \in ProtoNames THEN EmptyObj ELSE Null])

\* values.map(getTimezone), from position i on; acc collects the records.
RECURSIVE mapGetTimezone(_, _, _, _)
mapGetTimezone(st, values, i, acc) ==
    IF i > Len(values) THEN [st |-> st, ret |-> acc]
    ELSE Const(getTimezone(st, values[i]), LAMBDA g :
           Const(Append(acc, g.ret), LAMBDA acc1 :
             mapGetTimezone(g.st, values, i + 1, acc1)))

\* Returns [st, isNull, ret]: isNull when the country is not found.
getTimezonesForCountry(st, countryId, options) ==
    Const(getCountry(st, countryId, options), LAMBDA c :
      IF c.ret = Null THEN [st |-> c.st, isNull |-> TRUE, ret |-> <<>>]
      ELSE LET values == IF Has(c.ret, "timezones") THEN c.ret.timezones ELSE <<>>
           IN  Const(mapGetTimezone(c.st, values, 1, <<>>), LAMBDA m :
                 [st |-> m.st, isNull |-> FALSE, ret |-> m.ret]))

(* --------------------------- live clock formatter ----------------------- *)

\* A promise settles once: reject/resolve on a settled promise do nothing, and
\* an exception thrown inside the executor is a reject with that exception.
Pending == [state |-> "pending"]

\* A promise whose latest settlement wins.
settle_lastWins(p, outcome) == outcome

settle(p, outcome) == IF p.state = "pending" THEN outcome ELSE p

reject(p, error) == settle(p, [state |-> "rejected", error |-> error])

resolve(p, value) == settle(p, [state |-> "fulfilled", value |-> value])

\* new Date().toLocaleTimeString('en-US', {timeZone, ...}): the host's rendering
\* of the instant `now` in the zone, kept abstract.
toLocaleTimeString(now, timeZone) == [instant |-> now, timeZone |-> timeZone]

\* getCountryLiveClock that rejects only a missing country, not an empty list.
getCountryLiveClock_nullOnly(st, countryCode, now) ==
    LET falsy == countryCode.type = "undefined" \/ countryCode.chars = <<>>
        p1 == IF falsy THEN reject(Pending, "Country Code is required") ELSE Pending
    IN  IF countryCode.type = "undefined"
        THEN [st |-> st, ret |-> reject(p1, "TypeError")]
        ELSE Const(getTimezonesForCountry(st, toUpperCase(countryCode.chars), EmptyObj), LAMBDA t :
               LET p2 == IF t.isNull
                         THEN reject(p1, "Invalid Country Code") ELSE p1
               IN  IF t.isNull
                   THEN [st |-> t.st, ret |-> reject(p2, "TypeError")]
                   ELSE LET top == slice(t.ret, 5)
                            result == [i \in 1..Len(top) |->
                                          [timezone |-> top[i].name,
                                           time |-> toLocaleTimeString(now, top[i].name)]]
                        IN  [st |-> t.st, ret |-> resolve(p2, result)])

\* getCountryLiveClock that resolves the code as given, without upper-casing.
getCountryLiveClock_noUpper(st, countryCode, now) ==
    LET falsy == countryCode.type = "undefined" \/ countryCode.chars = <<>>
        p1 == IF falsy THEN reject(Pending, "Country Code is required") ELSE Pending
    IN  IF countryCode.type = "undefined"
        THEN [st |-> st, ret |-> reject(p1, "TypeError")]
        ELSE Const(getTimezonesForCountry(st, countryCode.chars, EmptyObj), LAMBDA t :
               LET p2 == IF t.isNull \/ Len(t.ret) = 0
                         THEN reject(p1, "Invalid Country Code") ELSE p1
               IN  IF t.isNull
                   THEN [st |-> t.st, ret |-> reject(p2, "TypeError")]
                   ELSE LET top == slice(t.ret, 5)
                            result == [i \in 1..Len(top) |->
                                          [timezone |-> top[i].name,
                                           time |-> toLocaleTimeString(now, top[i].name)]]
                        IN  [st |-> t.st, ret |-> resolve(p2, result)])

\* countryCode is [type |-> "undefined"] or [type |-> "string", chars |-> <<...>>].
\* Returns [st, ret]: the store after the call and the promise's final state.
getCountryLiveClock(st, countryCode, now) ==
    LET falsy == countryCode.type = "undefined" \/ countryCode.chars = <<>>
        p1 == IF falsy THEN reject(Pending, "Country Code is required") ELSE Pending
    IN  IF countryCode.type = "undefined"
        THEN [st |-> st, ret |-> reject(p1, "TypeError")]
        ELSE Const(getTimezonesForCountry(st, toUpperCase(countryCode.chars), EmptyObj), LAMBDA t :
               LET p2 == IF t.isNull \/ Len(t.ret) = 0
                         THEN reject(p1, "Invalid Country Code") ELSE p1
               IN  IF t.isNull
                   THEN [st |-> t.st, ret |-> reject(p2, "TypeError")]
                   ELSE LET top == slice(t.ret, 5)
                            result == [i \in 1..Len(top) |->
                                          [timezone |-> top[i].name,
                                           time |-> toLocaleTimeString(now, top[i].name)]]
                        IN  [st |-> t.st, ret |-> resolve(p2, result)])

(* ------------------------------- inputs --------------------------------- *)

Chars == {"a", "A", "B"}

Strings == {<<>>} \cup {<<x>> : x \in Chars} \cup {<<x, y>> : x \in Chars, y \in Chars}

CodeInputs == {[type |-> "undefined"]} \cup {[type |-> "string", chars |-> s] : s \in Strings}

IdInputs == {AA, AB, BA, XB, <<"a", "a">>, <<"constructor">>}

OptionInputs == {EmptyObj, [deprecated |-> FALSE], [deprecated |-> TRUE]}

NameInputs == {data.keys[i] : i \in 1..Len(data.keys)} \cup {"Nowhere", "constructor"}

(* ------------------------------- actions -------------------------------- *)

NoMap == [defined |-> FALSE, map |-> <<>>]

Init ==
    /\ data \in Datasets
    /\ timezonesMap = NoMap
    /\ countries = <<>>
    /\ timezones = <<>>
    /\ last = [op |-> "none"]
    /\ seenClock = {}
    /\ seenCountry = {}
    /\ seenTimezone = {}

NumSeen == Cardinality(seenClock) + Cardinality(seenCountry) + Cardinality(seenTimezone)

\* A call is taken when its input was used before or the behaviour has room
\* for one more distinct call.
Room(usedBefore) == usedBefore \/ NumSeen < MaxCalls

Commit(st) ==
    /\ timezonesMap' = st.timezonesMap
    /\ countries' = st.countries
    /\ timezones' = st.timezones

CallGetCountryLiveClock ==
    \E countryCode \in CodeInputs, now \in 1..MaxNow :
        /\ Room(\E c \in seenClock : c.arg = countryCode /\ c.now = now)
        /\ \E r \in {getCountryLiveClock(Store, countryCode, now)} :
            /\ Commit(r.st)
            /\ last' = [op |-> "getCountryLiveClock", arg |-> countryCode, now |-> now,
                        ret |-> r.ret, built |-> r.st.built]
            /\ seenClock' = seenClock \cup {[arg |-> countryCode, now |-> now, ret |-> r.ret]}
            /\ UNCHANGED <<data, seenCountry, seenTimezone>>

CallGetCountry ==
    \E id \in IdInputs, options \in OptionInputs :
        /\ Room(\E c \in seenCountry : c.id = id /\ c.options = options)
        /\ \E r \in {getCountry(Store, id, options)} :
            /\ Commit(r.st)
            /\ last' = [op |-> "getCountry", id |-> id, options |-> options,
                        ret |-> r.ret, built |-> r.st.built]
            /\ seenCountry' = seenCountry \cup {[id |-> id, options |-> options, ret |-> r.ret]}
            /\ UNCHANGED <<data, seenClock, seenTimezone>>

CallGetTimezone ==
    \E name \in NameInputs :
        /\ Room(\E c \in seenTimezone : c.name = name)
        /\ \E r \in {getTimezone(Store, name)} :
            /\ Commit(r.st)
            /\ last' = [op |-> "getTimezone", name |-> name,
                        ret |-> r.ret, built |-> r.st.built]
            /\ seenTimezone' = seenTimezone \cup {[name |-> name, ret |-> r.ret]}
            /\ UNCHANGED <<data, seenClock, seenCountry>>

Next == CallGetCountryLiveClock \/ CallGetCountry \/ CallGetTimezone

Spec == Init /\ [][Next]_vars

(* ------------------------- vocabulary of the claims --------------------- *)

Range(seq) == {seq[i] : i \in 1..Len(seq)}

Min(a, b) == IF a < b THEN a ELSE b

\* The index lists of a country as the built index holds them.
IndexCurrent(country) ==
    IF timezonesMap.defined /\ Has(timezonesMap.map, country)
    THEN timezonesMap.map[country].current ELSE <<>>

IndexAll(country) ==
    IF timezonesMap.defined /\ Has(timezonesMap.map, country)
    THEN timezonesMap.map[country].all ELSE <<>>

IsClock == last.op = "getCountryLiveClock"

IsStringCode == IsClock /\ last.arg.type = "string"

MissingInput == [state |-> "rejected", error |-> "Country Code is required"]

InvalidCountryCode == [state |-> "rejected", error |-> "Invalid Country Code"]

\* The country the last live-clock call resolves (its upper-cased code).
LastCountry == toUpperCase(last.arg.chars)

Zones(value) == {value[i].timezone : i \in 1..Len(value)}

(* -------------------------------- claims -------------------------------- *)

\* C1: getCountryLiveClock with an empty or absent country code ends rejected
\* with "Country Code is required" and never fulfilled: the first settlement
\* is the final outcome although the executor keeps running.
C1_MissingInputRejects ==
    (IsClock /\ (last.arg.type = "undefined" \/ last.arg.chars = <<>>))
        => last.ret = MissingInput

\* The empty string was passed: the body ran on to the lookup and the second
\* reject, and the outcome is still the first rejection.
C1_Witness ==
    /\ IsStringCode
    /\ last.arg.chars = <<>>
    /\ last.ret.state = "rejected"

\* C2: for a non-empty string code the outcome is the "Invalid Country Code"
\* rejection, with no result sequence, exactly when the upper-cased code is
\* not a dataset country or is one whose current timezone list is empty.
C2_InvalidCodeRejects ==
    (IsStringCode /\ last.arg.chars # <<>>) =>
        LET invalid == \/ ~Has(data.countries, LastCountry)
                       \/ Len(IndexCurrent(LastCountry)) = 0
        IN  /\ invalid => (last.ret = InvalidCountryCode /\ ~Has(last.ret, "value"))
            /\ ~invalid => last.ret # InvalidCountryCode

\* A known country whose index entry has only deprecated zones was asked for.
C2_Witness ==
    /\ IsStringCode
    /\ Has(data.countries, LastCountry)
    /\ Len(IndexAll(LastCountry)) > 0
    /\ Len(IndexCurrent(LastCountry)) = 0
    /\ last.ret.state = "rejected"

IsCountry == last.op = "getCountry"

IsTimezone == last.op = "getTimezone"

Deprecated(options) == Has(options, "deprecated") /\ options.deprecated

\* C5 as stated: for a dataset country the record getCountry(id) returns has
\* id equal to the input and timezones a subset of its own allTimezones field.
C5_SubsetOfOwnAllTimezones ==
    (IsCountry /\ Has(data.countries, last.id) /\ ~Deprecated(last.options)) =>
        /\ last.ret.id = last.id
        /\ Has(last.ret, "allTimezones")
        /\ Range(last.ret.timezones) \subseteq Range(last.ret.allTimezones)

\* C5 amended: for a dataset country the record getCountry(id) returns has id
\* equal to the input, carries no allTimezones field of its own, and its
\* timezones are a subset of the allTimezones of the cached base record.
C5_SubsetOfCachedAllTimezones ==
    (IsCountry /\ Has(data.countries, last.id) /\ ~Deprecated(last.options)) =>
        /\ last.ret.id = last.id
        /\ DOMAIN last.ret = {"id", "name", "timezones"}
        /\ Has(countries, last.id)
        /\ Range(last.ret.timezones) \subseteq Range(countries[last.id].allTimezones)

\* getCountry returned a country whose current list is strictly smaller than
\* the all list of its cached record.
C5_Witness ==
    /\ IsCountry
    /\ Has(data.countries, last.id)
    /\ ~Deprecated(last.options)
    /\ Len(last.ret.timezones) >= 1
    /\ Len(last.ret.timezones) < Len(countries[last.id].allTimezones)

\* C6: every getCountry call on a known id returns the all list when
\* deprecated is true and the current list otherwise, whatever options the
\* earlier calls used, and the cached base record keeps both lists.
C6_SelectionPerCall ==
    /\ \A c \in seenCountry :
          Has(data.countries, c.id) =>
              c.ret.timezones = IF Deprecated(c.options) THEN IndexAll(c.id)
                                ELSE IndexCurrent(c.id)
    /\ IsCountry /\ Has(data.countries, last.id) =>
          /\ last.ret.timezones = IF Deprecated(last.options) THEN IndexAll(last.id)
                                  ELSE IndexCurrent(last.id)
          /\ countries[last.id].timezones = IndexCurrent(last.id)
          /\ countries[last.id].allTimezones = IndexAll(last.id)

\* A call without the deprecated selection came after a call with it on the
\* same id, and the two returned different lists.
C6_Witness ==
    /\ IsCountry
    /\ Has(data.countries, last.id)
    /\ ~Deprecated(last.options)
    /\ \E c \in seenCountry :
          /\ c.id = last.id
          /\ Deprecated(c.options)
          /\ c.ret.timezones # last.ret.timezones

\* The last call repeats an earlier one: same id and deprecated selection, or
\* same timezone name (evaluated on a step, against the calls seen before it).
RepeatsEarlierCall ==
    \/ /\ last'.op = "getCountry"
       /\ \E c \in seenCountry :
             c.id = last'.id /\ Deprecated(c.options) = Deprecated(last'.options)
    \/ /\ last'.op = "getTimezone"
       /\ \E c \in seenTimezone : c.name = last'.name

\* C7: getCountry with the same id and deprecated selection, and getTimezone
\* with the same name, return equal records (or null) every time, whatever
\* was called in between; a repeated call builds nothing and leaves the index
\* and both caches as they were.
C7_LookupsIdempotent ==
    /\ [](/\ \A c1, c2 \in seenCountry :
                (c1.id = c2.id /\ Deprecated(c1.options) = Deprecated(c2.options))
                    => c1.ret = c2.ret
          /\ \A c1, c2 \in seenTimezone : c1.name = c2.name => c1.ret = c2.ret)
    /\ [][RepeatsEarlierCall =>
             /\ last'.built = NoBuilt
             /\ timezonesMap' = timezonesMap
             /\ countries' = countries
             /\ timezones' = timezones]_vars

\* getCountry was repeated on a known id after a getTimezone call, with no
\* other country call and no live-clock call in the behaviour.
C7_Witness ==
    /\ IsCountry
    /\ last.ret # Null
    /\ last.built = NoBuilt
    /\ Has(countries, last.id)
    /\ seenClock = {}
    /\ seenTimezone # {}
    /\ Cardinality(seenCountry) = 1

\* Every country code a dataset or a caller can name.
AllCodes == IdInputs \cup {AA, AB, BA, BB, XB}

\* The effective country list of a timezone id of dataset d as the claim words
\* it: its own countries field if it has one, otherwise that of the zone it
\* directly aliases, otherwise none.
EffectiveCountries(d, id) ==
    LET entry == d.timezones[id]
    IN  IF Has(entry, "c") THEN entry.c
        ELSE IF Has(entry, "a") /\ Has(d.timezones, entry.a)
                /\ Has(d.timezones[entry.a], "c")
             THEN d.timezones[entry.a].c
        ELSE <<>>

InEffective(d, country, id) == country \in Range(EffectiveCountries(d, id))

\* The ids of seq that satisfy Test, in the order of seq.
RECURSIVE Filter(_, _, _)
Filter(seq, Test(_), i) ==
    IF i > Len(seq) THEN <<>>
    ELSE (IF Test(seq[i]) THEN <<seq[i]>> ELSE <<>>) \o Filter(seq, Test, i + 1)

\* For each dataset and country code, the lists the claim expects: the ids
\* with the country in their effective list, and those of them without a
\* deprecation marker, both in dataset iteration order.
ExpectedLists ==
    [d \in Datasets |->
        [country \in AllCodes |->
            [listed |-> \E i \in 1..Len(d.keys) : InEffective(d, country, d.keys[i]),
             all |-> Filter(d.keys, LAMBDA id : InEffective(d, country, id), 1),
             current |-> Filter(d.keys, LAMBDA id : InEffective(d, country, id)
                                                     /\ ~Has(d.timezones[id], "r"), 1)]]]

BuiltIndex == [d \in Datasets |-> buildTimezonesMap(d)]

\* The country record that building from the static dataset yields.
BuiltCountry(id) ==
    LET entry == IF Has(BuiltIndex[data], id) THEN BuiltIndex[data][id]
                 ELSE [current |-> <<>>, all |-> <<>>]
    IN  [id |-> id, name |-> data.countries[id],
         timezones |-> entry.current, allTimezones |-> entry.all]

\* C10: across any calls the caches only grow: the index, once built, is never
\* built again nor replaced; a country or timezone entry, once inserted, stays
\* and keeps its value; every entry sits under its own id/name and equals what
\* building it from the static dataset yields.
C10_CachesOnlyGrow ==
    /\ [][/\ timezonesMap.defined =>
                (timezonesMap' = timezonesMap /\ last'.built.index = 0)
          /\ \A id \in DOMAIN countries :
                Has(countries', id) /\ countries'[id] = countries[id]
          /\ \A name \in DOMAIN timezones :
                Has(timezones', name) /\ timezones'[name] = timezones[name]]_vars
    /\ [](/\ timezonesMap.defined => timezonesMap.map = BuiltIndex[data]
          /\ \A id \in DOMAIN countries :
                /\ countries[id].id = id
                /\ Has(data.countries, id)
                /\ countries[id] = BuiltCountry(id)
          /\ \A name \in DOMAIN timezones :
                /\ timezones[name].name = name
                /\ timezones[name] = buildTimezone(data, name))

\* A failing live-clock call found the index built and both caches filled
\* by earlier calls.
C10_Witness ==
    /\ IsClock
    /\ last.ret.state = "rejected"
    /\ last.built = NoBuilt
    /\ timezonesMap.defined
    /\ DOMAIN countries # {}
    /\ DOMAIN timezones # {}

(* ---------------------- offset formatting on its own --------------------- *)

OffsetInputs == -MaxOffset..MaxOffset

CallGetOffsetStr ==
    \E offset \in OffsetInputs :
        /\ last' = [op |-> "getOffsetStr", offset |-> offset, ret |-> getOffsetStr(offset)]
        /\ UNCHANGED <<data, timezonesMap, countries, timezones,
                       seenClock, seenCountry, seenTimezone>>

\* getOffsetStr is pure: it leaves the index and the caches as they are, so
\* whatever can follow it can follow the state it was called in.  A behaviour
\* therefore ends with it, after any number of timezone lookups.
NextOffset ==
    \/ (last.op # "getOffsetStr" /\ CallGetOffsetStr)
    \/ (last.op # "getOffsetStr" /\ CallGetTimezone)

\* getOffsetStr applied to every offset of OffsetInputs, next to the timezone
\* resolver that applies it to the dataset's offsets.
SpecOffset == Init /\ [][NextOffset]_vars

IsOffset == last.op = "getOffsetStr"

\* A number below 100 written with exactly two decimal digits.
TwoDigits(n) ==
    LET D == [k \in 0..9 |->
                CASE k = 0 -> "0" [] k = 1 -> "1" [] k = 2 -> "2" [] k = 3 -> "3"
                  [] k = 4 -> "4" [] k = 5 -> "5" [] k = 6 -> "6" [] k = 7 -> "7"
                  [] k = 8 -> "8" [] k = 9 -> "9"]
    IN  D[n \div 10] \o D[n % 10]

\* "<sign><HH>:<MM>" of an offset in minutes, as the claim words it.
FormattedOffset(minutes) ==
    LET magnitude == IF minutes >= 0 THEN minutes ELSE 0 - minutes
    IN  (IF minutes >= 0 THEN "+" ELSE "-")
            \o TwoDigits(magnitude \div 60) \o ":" \o TwoDigits(magnitude % 60)

\* A record built from a dataset entry without a d field repeats the utc offset.
DstDefaultsToUtc(name, record) ==
    (Has(data.timezones, name) /\ ~Has(data.timezones[name], "d")) =>
        /\ record.utcOffset = data.timezones[name].u
        /\ record.dstOffset = record.utcOffset
        /\ record.dstOffsetStr = record.utcOffsetStr

\* C11: getOffsetStr returns sign, two-digit hours, ":" and two-digit minutes
\* of the offset's magnitude, "+" for offsets >= 0 and "-" below; 330 gives
\* "+05:30", -330 "-05:30" and 0 "+00:00"; a timezone record whose dataset
\* entry has no separate DST offset has dstOffset = utcOffset and
\* dstOffsetStr = utcOffsetStr.
C11_OffsetFormat ==
    /\ IsOffset =>
          /\ last.ret = FormattedOffset(last.offset)
          /\ last.offset = 330 => last.ret = "+05:30"
          /\ last.offset = -330 => last.ret = "-05:30"
          /\ last.offset = 0 => last.ret = "+00:00"
    /\ \A name \in DOMAIN timezones :
          /\ DstDefaultsToUtc(name, timezones[name])
          /\ timezones[name].utcOffsetStr = FormattedOffset(timezones[name].utcOffset)
          /\ timezones[name].dstOffsetStr = FormattedOffset(timezones[name].dstOffset)
    /\ \A c \in seenTimezone :
          Has(data.timezones, c.name) => DstDefaultsToUtc(c.name, c.ret)

\* getOffsetStr was given a negative offset with hours below ten and minutes
\* that are no multiple of ten, and getTimezone has returned a record whose
\* dataset entry has no d field.
C11_Witness ==
    /\ IsOffset
    /\ last.offset < 0
    /\ last.offset > -600
    /\ (0 - last.offset) % 10 # 0
    /\ \E c \in seenTimezone :
          /\ Has(data.timezones, c.name)
          /\ ~Has(data.timezones[c.name], "d")
          /\ c.ret.dstOffsetStr = c.ret.utcOffsetStr

====
